---- MODULE Spec2Model ----
(***************************************************************************)
(* Verification model of envs/pybullet_blocks.py: the pickup controller,   *)
(* the grasp predicates and the action-abstraction layer                   *)
(* (AbstractPybulletEnv) over the low-level blocks simulator.              *)
(*                                                                         *)
(* Numbers are fixed point: the real 1.0 is Scale units, so one unit is    *)
(* 5e-4 (metres for positions, dimensionless for controls).  Comparisons   *)
(* are exact (real arithmetic); float rounding at a threshold is not       *)
(* modelled.  A block name "block<k>" is the integer k.                    *)
(***************************************************************************)
EXTENDS Integers, Sequences, FiniteSets, TLC

Scale == 20 * 100

\* ------------------------------------------------------------------ vectors
Abs(x) == IF x < 0 THEN -x ELSE x

Sign_Flipped(x) == IF x > 0 THEN -1 ELSE IF x < 0 THEN 1 ELSE 0

Sign(x) == IF x > 0 THEN 1 ELSE IF x < 0 THEN -1 ELSE 0

Sub3(a, b) == <<a[1] - b[1], a[2] - b[2], a[3] - b[3]>>

Add3(a, b) == <<a[1] + b[1], a[2] + b[2], a[3] + b[3]>>

SumSq3(a) == a[1] * a[1] + a[2] * a[2] + a[3] * a[3]

\* ---------------------------------------------------------------- constants
\* atol = 1e-3; compared with lengths (atol) and with squared lengths, where
\* sum(d^2) < atol in reals is sum(d^2) < atol * Scale in units.
atol == Scale \div 1000

gain == 10

pick_height == Scale \div 2

workspace_height == Scale \div 10

closed_aperture == (35 * Scale) \div 1000

open_aperture == (50 * Scale) \div 1000

closing_bias == Scale \div 100

controller_max_steps == 100

max_piles == 3

\* ------------------------------------------------------- grasp predicates
get_move_action(gripper_position, target_position) ==
    LET d == Sub3(target_position, gripper_position)
    IN  <<gain * d[1], gain * d[2], gain * d[3], 0>>

block_inside_grippers(gripper_position, block_position, relative_grasp_position, tol) ==
    LET relative_position == Sub3(gripper_position, block_position)
    IN  SumSq3(Sub3(relative_position, relative_grasp_position)) < tol * Scale

grippers_are_closed_NoAperture(left_finger_pos, tol) == Abs(left_finger_pos) <= tol

grippers_are_closed(left_finger_pos, tol) ==
    Abs(left_finger_pos) - closed_aperture <= tol

grippers_are_open_NoAbs(left_finger_pos, tol) == left_finger_pos - open_aperture <= tol

grippers_are_open(left_finger_pos, tol) ==
    Abs(left_finger_pos - open_aperture) <= tol

block_is_grasped_DefaultTol(left_finger_pos, gripper_position, block_position, relative_grasp_position, tol) ==
    LET block_inside == block_inside_grippers(gripper_position, block_position,
                                              relative_grasp_position, tol)
        grippers_closed == grippers_are_closed(left_finger_pos, atol)
    IN  block_inside /\ grippers_closed

block_is_grasped(left_finger_pos, gripper_position, block_position, relative_grasp_position, tol) ==
    LET block_inside == block_inside_grippers(gripper_position, block_position,
                                              relative_grasp_position, tol)
        grippers_closed == grippers_are_closed(left_finger_pos, tol)
    IN  block_inside /\ grippers_closed

\* ------------------------------------------------------------- controllers
\* A controller call either raises or returns (control, done).
Raised(err) == [raised |-> TRUE, error |-> err, control |-> <<0, 0, 0, 0>>, done |-> FALSE]

Returned(control, done) == [raised |-> FALSE, error |-> "", control |-> control, done |-> done]

ReachedPickHeight_Strict(block_position) == block_position[3] > pick_height

ReachedPickHeight(block_position) == block_position[3] >= pick_height

pickup_controller_CloseFirst(objects, obs) ==
    IF Len(objects) # 1 THEN Raised("AssertionError")
    ELSE IF objects[1] \notin DOMAIN obs.blocks THEN Raised("KeyError")
    ELSE
    LET gripper_position == obs.gripper
        left_finger_pos == obs.finger
        block_position == obs.blocks[objects[1]]
        relative_grasp_position == <<0, 0, 0>>
        target_position == Add3(block_position, relative_grasp_position)
    IN  IF ReachedPickHeight(block_position)
        THEN Returned(<<0, 0, 0, -closing_bias>>, TRUE)
        ELSE IF block_inside_grippers(gripper_position, block_position,
                                      relative_grasp_position, atol)
        THEN Returned(<<0, 0, 0, -Scale>>, FALSE)
        ELSE IF block_is_grasped(left_finger_pos, gripper_position, block_position,
                                 relative_grasp_position, atol)
        THEN Returned(<<0, 0, Scale * Sign(pick_height - block_position[3]), -closing_bias>>, FALSE)
        ELSE IF (gripper_position[1] - target_position[1]) * (gripper_position[1] - target_position[1])
                + (gripper_position[2] - target_position[2]) * (gripper_position[2] - target_position[2])
                < atol * Scale
        THEN IF ~grippers_are_open(left_finger_pos, atol)
             THEN Returned(<<0, 0, 0, Scale>>, FALSE)
             ELSE Returned(get_move_action(gripper_position, target_position), FALSE)
        ELSE Returned(get_move_action(gripper_position,
                                      Add3(target_position, <<0, 0, workspace_height>>)), FALSE)

pickup_controller(objects, obs) ==
    IF Len(objects) # 1 THEN Raised("AssertionError")
    ELSE IF objects[1] \notin DOMAIN obs.blocks THEN Raised("KeyError")
    ELSE
    LET gripper_position == obs.gripper
        left_finger_pos == obs.finger
        block_position == obs.blocks[objects[1]]
        relative_grasp_position == <<0, 0, 0>>
        target_position == Add3(block_position, relative_grasp_position)
    IN  IF ReachedPickHeight(block_position)
        THEN Returned(<<0, 0, 0, -closing_bias>>, TRUE)
        ELSE IF block_is_grasped(left_finger_pos, gripper_position, block_position,
                                 relative_grasp_position, atol)
        THEN Returned(<<0, 0, Scale * Sign(pick_height - block_position[3]), -closing_bias>>, FALSE)
        ELSE IF block_inside_grippers(gripper_position, block_position,
                                      relative_grasp_position, atol)
        THEN Returned(<<0, 0, 0, -Scale>>, FALSE)
        ELSE IF (gripper_position[1] - target_position[1]) * (gripper_position[1] - target_position[1])
                + (gripper_position[2] - target_position[2]) * (gripper_position[2] - target_position[2])
                < atol * Scale
        THEN IF ~grippers_are_open(left_finger_pos, atol)
             THEN Returned(<<0, 0, 0, Scale>>, FALSE)
             ELSE Returned(get_move_action(gripper_position, target_position), FALSE)
        ELSE Returned(get_move_action(gripper_position,
                                      Add3(target_position, <<0, 0, workspace_height>>)), FALSE)

puton_controller_NotDone(objects, state) == Returned(<<0, 0, 0, 0>>, FALSE)

puton_controller(objects, state) == Returned(<<0, 0, 0, 0>>, TRUE)

putontable_controller(objects, state) == Returned(<<0, 0, 0, 0>>, TRUE)

\* The dispatch table: its keys, and the call of the controller of a key.
controllers == {"pickup", "puton", "putontable"}

CallController(predicate, objects, obs) ==
    CASE predicate = "pickup" -> pickup_controller(objects, obs)
      [] predicate = "puton" -> puton_controller(objects, obs)
      [] predicate = "putontable" -> putontable_controller(objects, obs)
      [] OTHER -> Raised("KeyError")

\* ------------------------------------------------------------ observation
ontable(b) == [predicate |-> "ontable", variables |-> <<b>>]

get_observation_Holding(state) ==
    { IF state.blocks[block_name][3] >= pick_height
      THEN [predicate |-> "holding", variables |-> <<block_name>>]
      ELSE ontable(block_name) : block_name \in DOMAIN state.blocks }

get_observation(state) == { ontable(block_name) : block_name \in DOMAIN state.blocks }

LiteralArguments(obs) ==
    UNION { { lit.variables[k] : k \in 1..Len(lit.variables) } : lit \in obs }

RECURSIVE sorted(_)
sorted(S) ==
    IF S = {} THEN <<>>
    ELSE LET m == CHOOSE x \in S : \A y \in S : x <= y
         IN  <<m>> \o sorted(S \ {m})


\* ------------------------------------------------- low-level simulator
\* The physics engine is opaque.  Under physics "any", what get_state returns
\* after a reset or a tick is any scene of a small set over the blocks that
\* exist; under physics "nominal" the gripper, the fingers and a grasped block
\* reach the targets that step commands; under physics "rest" reset leaves
\* the scene as set_state placed it.  Blocks exist from one reset to the
\* next (block_ids is written by set_state alone).
home_position == <<Scale, Scale \div 2, Scale \div 2>>

BlockRestPosition(pile, z) == <<(5 * Scale) \div 4, Scale \div 2 + pile * (Scale \div 5), z>>

Scene(gripper, finger, blocks) == [gripper |-> gripper, finger |-> finger, blocks |-> blocks]

LowZ == pick_height - 100

\* (gripper position, finger position): at home with open fingers, or closed
\* around the resting place of block0.
SceneGrippers == { <<home_position, open_aperture>>, <<BlockRestPosition(0, LowZ), 0>> }

AnyScenes(block_ids) ==
    { Scene(g[1], g[2], [b \in block_ids |->
                           BlockRestPosition(b, IF b = raised THEN pick_height ELSE LowZ)]) :
        g \in SceneGrippers, raised \in {-1} \cup block_ids }

\* Nominal starts: gripper above the approach height of every block, fingers
\* open, blocks at rest below the pick height.
MaxGrid == 1

MaxCalls == 1

NominalStarts(block_ids) ==
    { Scene(<<(5 * Scale) \div 4 - 250 * kx, Scale \div 2, pick_height + workspace_height + 150 * kz>>,
            f,
            [b \in block_ids |-> BlockRestPosition(b, pick_height - 99 * depth)]) :
        kx \in 0..MaxGrid, kz \in 0..MaxGrid, depth \in 1..(MaxGrid + 1),
        f \in { open_aperture - atol, open_aperture + atol } }

\* The scene as set_state leaves it: arm at home, fingers open, blocks at rest.
RestScene(block_ids) ==
    Scene(home_position, open_aperture, [b \in block_ids |-> BlockRestPosition(b, LowZ)])

\* np_random is seeded by seed() in __init__, that is from the entropy of the
\* system: every number of piles can be drawn at every reset.
sample_initial_state == { 0..(num_piles - 1) : num_piles \in 1..max_piles }

\* What reset leaves: the blocks created and the scene get_state returns.
low_level_reset(physics) ==
    UNION { { [block_ids |-> ids, obs |-> o] :
                o \in (IF physics = "nominal" THEN NominalStarts(ids)
                       ELSE IF physics = "rest" THEN { RestScene(ids) }
                       ELSE AnyScenes(ids)) } :
              ids \in sample_initial_state }

\* step(action) under nominal physics: action *= 0.05, the end effector is sent
\* to current + action[:3], the fingers to current + action[3]; a block held
\* between the closed fingers travels with the gripper.  Half units round down.
NominalTick(state, ctrl) ==
    LET ee_delta == <<ctrl[1] \div 20, ctrl[2] \div 20, ctrl[3] \div 20>>
        finger_action == ctrl[4] \div 20
        held(b) == block_is_grasped(state.finger, state.gripper, state.blocks[b],
                                    <<0, 0, 0>>, atol)
    IN  Scene(Add3(state.gripper, ee_delta),
              state.finger + finger_action,
              [b \in DOMAIN state.blocks |->
                 IF held(b) THEN Add3(state.blocks[b], ee_delta) ELSE state.blocks[b]])

\* The classes the factory is applied to: the blocks simulator, whose step
\* returns reward 0. and done False, and a simulator that may signal terminal.
LowLevelClasses == { "LowLevelPybulletBlocksEnv", "TerminatingEnv" }

low_level_step_Terminal(env, ctrl) ==
    { [obs |-> o, reward |-> r, done |-> d] :
        o \in (IF env.physics = "nominal" THEN { NominalTick(env.state, ctrl) }
               ELSE AnyScenes(env.block_ids)),
        r \in {0},
        d \in BOOLEAN }

low_level_step(env, ctrl) ==
    { [obs |-> o, reward |-> r, done |-> d] :
        o \in (IF env.physics = "nominal" THEN { NominalTick(env.state, ctrl) }
               ELSE AnyScenes(env.block_ids)),
        r \in (IF env.cls = "LowLevelPybulletBlocksEnv" THEN {0} ELSE {1}),
        d \in (IF env.cls = "LowLevelPybulletBlocksEnv" THEN {FALSE} ELSE BOOLEAN) }

NoBlocks == [b \in {} |-> <<0, 0, 0>>]

NoObs == Scene(<<0, 0, 0>>, 0, NoBlocks)

NoControl == <<0, 0, 0, 0>>

\* ------------------------------------------------ action-abstraction layer
VARIABLES
    low_level_env,            \* the simulator: [cls, physics, block_ids, state]
    _previous_low_level_obs,  \* <<>> while the attribute is not set, else <<obs>>
    _problem_objects,         \* <<>> while the attribute is not set, else <<objects>>
    action_space,             \* the objects last passed to action_space.update
    pc,                       \* "idle", or the position inside step
    action,                   \* the action of the running step call
    low_level_obs, reward, done, control, controller_done, i,   \* locals of step
    result,                   \* what the last call returned or raised
    call,                     \* the last step call: its action and the cache it met
    nCtrl, nTicks,            \* controller invocations and ticks of that call
    doneAt,                   \* the invocation that signalled completion, or 0
    ctl,                      \* the controller invocation not yet followed by a tick
    lastTick,                 \* the last tick of that call, sent by invocation k
    returned_obs,             \* <<>>, or the last symbolic observation returned
    calls,                    \* step calls since the last reset (nominal physics)
    args, out,                \* the arguments and results of a direct call
    self,                     \* the instance whose attributes the variables above hold
    other,                    \* the attributes of the other instance of the class
    session,                  \* the connection of the class attribute low_level_env
    life                      \* per instance: closed, seed given, block set then sampled

envVars == <<low_level_env, _previous_low_level_obs, _problem_objects, action_space,
             pc, action, low_level_obs, reward, done, control, controller_done, i,
             result, call, nCtrl, nTicks, doneAt, ctl, lastTick, returned_obs, calls,
             self, other, session, life>>

instVars == <<self, other, session, life>>

\* The instances test_integration makes of PybulletBlocksEnv.
Instances == { "training_env", "test_env" }

NoInstance == [constructed |-> FALSE, _previous_low_level_obs |-> <<>>,
               _problem_objects |-> <<>>, action_space |-> <<>>]

NoLife == [closed |-> FALSE, seed |-> <<>>, sampled |-> <<>>]

vars == <<envVars, args, out>>

NoAction == [predicate |-> "", variables |-> <<>>]

NoCall == [action |-> NoAction, start |-> <<>>]

NoCtl == [obs |-> NoObs, ret |-> Returned(NoControl, FALSE)]

NoTick == [obs |-> NoObs, reward |-> 0, done |-> FALSE, k |-> 0]

NoResult == [kind |-> "none", obs |-> {}, reward |-> 0, done |-> FALSE, error |-> ""]

Actions == { [predicate |-> p, variables |-> v] :
                p \in controllers \cup {"noop"},
                v \in {<<>>} \cup { <<b>> : b \in 0..(max_piles - 1) } }

\* The state after the class is created and an instance constructed.
EnvInit(classes, physics) ==
    /\ low_level_env \in { [cls |-> c, physics |-> physics, block_ids |-> {},
                            state |-> Scene(home_position, open_aperture, NoBlocks)] :
                           c \in classes }
    /\ _previous_low_level_obs = <<>>
    /\ _problem_objects = <<>>
    /\ action_space = <<>>
    /\ pc = "idle"
    /\ action = NoAction
    /\ low_level_obs = NoObs
    /\ reward = 0
    /\ done = FALSE
    /\ control = NoControl
    /\ controller_done = FALSE
    /\ i = 0
    /\ result = NoResult
    /\ call = NoCall
    /\ nCtrl = 0
    /\ nTicks = 0
    /\ doneAt = 0
    /\ ctl = NoCtl
    /\ lastTick = NoTick
    /\ returned_obs = <<>>
    /\ calls = 0
    /\ self = "training_env"
    /\ other = NoInstance
    /\ session = "connected"
    /\ life = [e \in Instances |-> NoLife]

Locals == <<action, low_level_obs, reward, done, control, controller_done, i>>

ClearLocals ==
    /\ action' = NoAction
    /\ low_level_obs' = NoObs
    /\ reward' = 0
    /\ done' = FALSE
    /\ control' = NoControl
    /\ controller_done' = FALSE
    /\ i' = 0

\* The record of a step call is kept until the next call begins.
CallRecord == <<call, nCtrl, nTicks, doneAt, ctl, lastTick>>

ClearCallRecord ==
    /\ call' = NoCall
    /\ nCtrl' = 0
    /\ nTicks' = 0
    /\ doneAt' = 0
    /\ ctl' = NoCtl
    /\ lastTick' = NoTick

ProblemObjects_Unsorted(obs) ==
    LET up == sorted(LiteralArguments(obs))
    IN  [k \in 1..Len(up) |-> up[Len(up) + 1 - k]]

ProblemObjects(obs) == sorted(LiteralArguments(obs))

Reset ==
    /\ UNCHANGED <<args, out, self, other, session>>
    /\ pc = "idle"
    /\ \E r \in low_level_reset(low_level_env.physics) :
         LET obs == get_observation(r.obs)
         IN  /\ low_level_env' = [low_level_env EXCEPT !.block_ids = r.block_ids,
                                                       !.state = r.obs]
             /\ _previous_low_level_obs' = <<r.obs>>
             /\ _problem_objects' = <<ProblemObjects(obs)>>
             /\ action_space' = ProblemObjects(obs)
             /\ result' = [NoResult EXCEPT !.kind = "reset", !.obs = obs]
             /\ returned_obs' = <<obs>>
             /\ life' = IF life[self].seed # <<>> /\ life[self].sampled = <<>>
                        THEN [life EXCEPT ![self].sampled = <<r.block_ids>>]
                        ELSE life
    /\ ClearCallRecord
    /\ calls' = 0
    /\ UNCHANGED <<pc, Locals>>

Registered_Any(predicate) == TRUE

Registered(predicate) == predicate \in controllers

\* self._previous_low_level_obs read in step: AttributeError while no reset
\* has set the attribute.
ReadAttribute_Default(attribute) ==
    [raised |-> FALSE, value |-> IF attribute = <<>> THEN NoObs ELSE attribute[1]]

ReadAttribute(attribute) ==
    IF attribute = <<>> THEN [raised |-> TRUE, value |-> NoObs]
    ELSE [raised |-> FALSE, value |-> attribute[1]]

StepCall ==
    /\ UNCHANGED <<args, out, instVars>>
    /\ pc = "idle"
    /\ low_level_env.physics = "nominal" => calls < MaxCalls
    /\ calls' = IF low_level_env.physics = "nominal" THEN calls + 1 ELSE calls
    /\ \E a \in Actions :
         /\ call' = [action |-> a, start |-> _previous_low_level_obs]
         /\ IF ~Registered(a.predicate)
            THEN /\ result' = [NoResult EXCEPT !.kind = "raised", !.error = "KeyError"]
                 /\ UNCHANGED <<pc, Locals>>
            ELSE IF ReadAttribute(_previous_low_level_obs).raised
            THEN /\ result' = [NoResult EXCEPT !.kind = "raised", !.error = "AttributeError"]
                 /\ UNCHANGED <<pc, Locals>>
            ELSE /\ action' = a
                 /\ low_level_obs' = ReadAttribute(_previous_low_level_obs).value
                 /\ reward' = 0
                 /\ done' = FALSE
                 /\ i' = 0
                 /\ pc' = IF controller_max_steps > 0 THEN "ctrl" ELSE "ret"
                 /\ result' = NoResult
                 /\ UNCHANGED <<control, controller_done>>
    /\ nCtrl' = 0
    /\ nTicks' = 0
    /\ doneAt' = 0
    /\ ctl' = NoCtl
    /\ lastTick' = NoTick
    /\ UNCHANGED <<low_level_env, _previous_low_level_obs, _problem_objects,
                   action_space, returned_obs>>

AfterController_NoBreak(ctrl_done) == "sim"

AfterController(ctrl_done) == IF ctrl_done THEN "ret" ELSE "sim"

ControllerInvoke ==
    /\ UNCHANGED <<args, out, instVars>>
    /\ pc = "ctrl"
    /\ LET r == CallController(action.predicate, action.variables, low_level_obs)
       IN  /\ nCtrl' = nCtrl + 1
           /\ ctl' = [obs |-> low_level_obs, ret |-> r]
           /\ IF r.raised
              THEN /\ result' = [NoResult EXCEPT !.kind = "raised", !.error = r.error]
                   /\ pc' = "idle"
                   /\ doneAt' = doneAt
                   /\ ClearLocals
              ELSE /\ control' = r.control
                   /\ controller_done' = r.done
                   /\ doneAt' = IF r.done /\ doneAt = 0 THEN nCtrl + 1 ELSE doneAt
                   /\ pc' = AfterController(r.done)
                   /\ UNCHANGED <<result, action, low_level_obs, reward, done, i>>
    /\ UNCHANGED <<low_level_env, _previous_low_level_obs, _problem_objects,
                   action_space, call, nTicks, lastTick, returned_obs, calls>>

LoopContinues_NoBudget(tick_done, next_i) == ~tick_done

LoopContinues_NoTerminal(tick_done, next_i) == next_i < controller_max_steps

LoopContinues(tick_done, next_i) == ~tick_done /\ next_i < controller_max_steps

SimTick ==
    /\ UNCHANGED <<args, out, instVars>>
    /\ pc = "sim"
    /\ \E t \in low_level_step(low_level_env, control) :
         /\ low_level_env' = [low_level_env EXCEPT !.state = t.obs]
         /\ low_level_obs' = t.obs
         /\ reward' = reward + t.reward
         /\ done' = t.done
         /\ lastTick' = [obs |-> t.obs, reward |-> t.reward, done |-> t.done, k |-> nCtrl]
         /\ pc' = IF LoopContinues(t.done, i + 1) THEN "ctrl" ELSE "ret"
    /\ i' = i + 1
    /\ nTicks' = nTicks + 1
    /\ ctl' = NoCtl
    /\ UNCHANGED <<_previous_low_level_obs, _problem_objects, action_space, action,
                   control, controller_done, result, call, nCtrl, doneAt,
                   returned_obs, calls>>

CacheAfterStep_Skip(latest_obs) == _previous_low_level_obs

CacheAfterStep(latest_obs) == <<latest_obs>>

StepReturn ==
    /\ UNCHANGED <<args, out, instVars>>
    /\ pc = "ret"
    /\ result' = [NoResult EXCEPT !.kind = "step", !.obs = get_observation(low_level_obs),
                                  !.reward = reward, !.done = done]
    /\ returned_obs' = <<get_observation(low_level_obs)>>
    /\ _previous_low_level_obs' = CacheAfterStep(low_level_obs)
    /\ pc' = "idle"
    /\ ClearLocals
    /\ UNCHANGED <<low_level_env, _problem_objects, action_space, CallRecord, calls>>

Render ==
    /\ UNCHANGED <<args, out, instVars>>
    /\ pc = "idle"
    /\ result.kind # "render"
    /\ result' = [NoResult EXCEPT !.kind = "render"]
    /\ ClearCallRecord
    /\ UNCHANGED <<low_level_env, _previous_low_level_obs, _problem_objects,
                   action_space, pc, Locals, returned_obs, calls>>

\* ------------------------------------------- direct calls of the controller
\* pickup_controller and the grasp predicates called on constructed
\* observations: displacements at, just inside and just outside the tolerance.
CtlBlockZ == { pick_height - 300, pick_height - 1, pick_height }

CtlDisplacements == { <<dx, dy, dz>> : dx \in {-500, 0, 60, 64}, dy \in {0, 19, 20, 21},
                                       dz \in {0, 63, 64, 200} }

CtlFingers == { -73, -72, 0, 72, 73, 97, 98, 102, 103 }

CtlOffsets == { <<0, 0, 0>>, <<0, 0, 30>> }

CtlArgs ==
    { [finger |-> f, gripper |-> Add3(Add3(BlockRestPosition(0, z), d), o),
       block |-> BlockRestPosition(0, z), offset |-> o, tol |-> t] :
        f \in CtlFingers, z \in CtlBlockZ, d \in CtlDisplacements, o \in CtlOffsets,
        t \in {atol, atol + 1} }

NoArgs == [finger |-> 0, gripper |-> <<0, 0, 0>>, block |-> <<0, 0, 0>>,
           offset |-> <<0, 0, 0>>, tol |-> 0]

NoOut == [called |-> FALSE, ret |-> Returned(NoControl, FALSE), grasped |-> FALSE]

ArgsObs(a) == Scene(a.gripper, a.finger, [b \in {0} |-> a.block])

DirectCall ==
    /\ ~out.called
    /\ args # NoArgs
    /\ out' = [called |-> TRUE,
               ret |-> pickup_controller(<<0>>, ArgsObs(args)),
               grasped |-> block_is_grasped(args.finger, args.gripper, args.block,
                                            args.offset, args.tol)]
    /\ UNCHANGED <<args, envVars>>

\* The next observation: the fingers moved, or the gripper moved.
NewFinger ==
    /\ out.called
    /\ \E f \in CtlFingers : args' = [args EXCEPT !.finger = f]
    /\ out' = NoOut
    /\ UNCHANGED envVars

NewGripper ==
    /\ out.called
    /\ \E d \in CtlDisplacements :
         args' = [args EXCEPT !.gripper = Add3(Add3(args.block, d), args.offset)]
    /\ out' = NoOut
    /\ UNCHANGED envVars

\* ------------------------------------------------------ kinematic solver
\* Joint angles in fixed point: 1.0 is JointScale units, so that the 1e-8 of
\* get_joint_ranges is one unit.  A body is [num_joints, qIndex, parent,
\* position]: joint_info[3], joint_info[-1] and getJointState(..)[0] of every
\* joint 0..num_joints-1.  Python lists are 0-based, sequences here 1-based.
JointScale == 100000000

epsilon == 1

MaxJoints == 3

MaxChain == 2

JointIds(n) == 0..(n - 1)

\* Live joint positions: all joints at zero, or joint j at (j+1)/4.
JointPositions(n) == { [j \in JointIds(n) |-> 0],
                       [j \in JointIds(n) |-> (j + 1) * (JointScale \div 4)] }

\* Bodies of up to MaxJoints joints, any of them fixed (qIndex -1), every link
\* hanging from the base (-1) or from a link of lower index.
Bodies ==
    UNION { { [num_joints |-> n,
               qIndex |-> [j \in JointIds(n) |-> IF j \in M THEN j ELSE -1],
               parent |-> par,
               position |-> pos] :
                M \in SUBSET JointIds(n),
                par \in { f \in [JointIds(n) -> -1..(n - 2)] : \A j \in JointIds(n) : f[j] < j },
                pos \in JointPositions(n) } :
            n \in 1..MaxJoints }

\* Requested joint lists: up to MaxChain different indices, index n (outside
\* the joint graph) among them.
JointIndexLists(n) ==
    UNION { { s \in [1..k -> 0..n] : \A a, b \in 1..k : a # b => s[a] # s[b] } :
            k \in 0..MaxChain }

InList(list, x) == \E k \in DOMAIN list : list[k] = x

\* list.index(x), counted from 1.
index(list, x) == CHOOSE k \in DOMAIN list : list[k] = x /\ \A m \in 1..(k - 1) : list[m] # x

free_joint_indices(body) == sorted({ idx \in JointIds(body.num_joints) : body.qIndex[idx] > -1 })

\* ll, ul and jr of one movable joint whose live position is rp.
JointLimits(rp, excluded) ==
    IF excluded
    THEN [ll |-> rp - epsilon, ul |-> rp + epsilon, jr |-> epsilon]
    ELSE [ll |-> -2 * JointScale, ul |-> 2 * JointScale, jr |-> 2 * JointScale]

get_joint_ranges(body, joint_indices) ==
    LET free == free_joint_indices(body)
        lim(k) == JointLimits(body.position[free[k]], ~InList(joint_indices, free[k]))
    IN  [lower_limits |-> [k \in 1..Len(free) |-> lim(k).ll],
         upper_limits |-> [k \in 1..Len(free) |-> lim(k).ul],
         joint_ranges |-> [k \in 1..Len(free) |-> lim(k).jr],
         rest_poses   |-> [k \in 1..Len(free) |-> body.position[free[k]]]]

\* The optimizer is opaque: one value per limit it was given, a pinned joint
\* at its rest pose, a free one somewhere inside its limits.
calculateInverseKinematics(ranges) ==
    { [k \in 1..Len(ranges.rest_poses) |->
         IF ranges.upper_limits[k] - ranges.lower_limits[k] <= 2 * epsilon
         THEN ranges.rest_poses[k]
         ELSE s * k * (JointScale \div 10)] : s \in {-1, 1} }

IKRaised(error) == [raised |-> TRUE, error |-> error, joint_poses |-> <<>>]

IKReturned(joint_poses) == [raised |-> FALSE, error |-> "", joint_poses |-> joint_poses]

inverse_kinematics_RawIndex(body, joint_indices, all_joint_poses) ==
    LET free == free_joint_indices(body)
    IN  IF \E k \in DOMAIN joint_indices : ~InList(free, joint_indices[k])
        THEN IKRaised("ValueError")
        ELSE IF \E k \in DOMAIN joint_indices : joint_indices[k] + 1 > Len(all_joint_poses)
        THEN IKRaised("IndexError")
        ELSE IKReturned([k \in 1..Len(joint_indices) |-> all_joint_poses[joint_indices[k] + 1]])

inverse_kinematics_SkipFixed(body, joint_indices, all_joint_poses) ==
    LET free == free_joint_indices(body)
        RECURSIVE poses(_)
        poses(k) == IF k > Len(joint_indices) THEN <<>>
                    ELSE (IF InList(free, joint_indices[k])
                          THEN <<all_joint_poses[index(free, joint_indices[k])]>>
                          ELSE <<>>) \o poses(k + 1)
    IN  IKReturned(poses(1))

\* all_joint_poses is what calculateInverseKinematics returned for the limits
\* of get_joint_ranges(body, joint_indices).
inverse_kinematics(body, joint_indices, all_joint_poses) ==
    LET free == free_joint_indices(body)
    IN  IF \E k \in DOMAIN joint_indices : ~InList(free, joint_indices[k])
        THEN IKRaised("ValueError")
        ELSE IKReturned([k \in 1..Len(joint_indices) |->
                           all_joint_poses[index(free, joint_indices[k])]])

RECURSIVE get_kinematic_chain(_, _)
get_kinematic_chain(body, end_effector_id) ==
    IF end_effector_id > 0
    THEN (IF body.qIndex[end_effector_id] > -1 THEN <<end_effector_id>> ELSE <<>>)
         \o get_kinematic_chain(body, body.parent[end_effector_id])
    ELSE <<>>

IKArgs(body) == { [body |-> body, joint_indices |-> s] : s \in JointIndexLists(body.num_joints) }

NoRanges == [lower_limits |-> <<>>, upper_limits |-> <<>>, joint_ranges |-> <<>>,
             rest_poses |-> <<>>]

IKOut(kind) == [called |-> TRUE, kind |-> kind, ranges |-> NoRanges, all_joint_poses |-> <<>>,
                ret |-> IKReturned(<<>>), end_effector_id |-> -1, kinematic_chain |-> <<>>]

CallInverseKinematics ==
    /\ ~out.called
    /\ LET ranges == get_joint_ranges(args.body, args.joint_indices)
       IN  \E all_joint_poses \in calculateInverseKinematics(ranges) :
             out' = [IKOut("inverse_kinematics") EXCEPT
                       !.ranges = ranges,
                       !.all_joint_poses = all_joint_poses,
                       !.ret = inverse_kinematics(args.body, args.joint_indices,
                                                  all_joint_poses)]
    /\ UNCHANGED <<args, envVars>>

CallGetJointRanges ==
    /\ ~out.called
    /\ out' = [IKOut("get_joint_ranges") EXCEPT
                 !.ranges = get_joint_ranges(args.body, args.joint_indices)]
    /\ UNCHANGED <<args, envVars>>

CallGetKinematicChain ==
    /\ ~out.called
    /\ \E end_effector_id \in JointIds(args.body.num_joints) :
         out' = [IKOut("get_kinematic_chain") EXCEPT
                   !.end_effector_id = end_effector_id,
                   !.kinematic_chain = get_kinematic_chain(args.body, end_effector_id)]
    /\ UNCHANGED <<args, envVars>>

\* Between two calls the joints move.
JointsMove ==
    /\ out.called
    /\ \E pos \in JointPositions(args.body.num_joints) :
         /\ pos # args.body.position
         /\ args' = [args EXCEPT !.body.position = pos]
    /\ out' = NoOut
    /\ UNCHANGED envVars

\* ------------------------------------------------- instances of the class
\* low_level_env = low_level_cls() is evaluated once, in the class body: the
\* simulator and its connection belong to the class and every instance
\* reaches them through self.low_level_env.  __init__ sets the two spaces;
\* _previous_low_level_obs and _problem_objects are attributes of the
\* instance.  The class defines neither seed nor close, so env.seed(s) and
\* env.close() run the methods inherited from gym.Env, which touch neither
\* low_level_env.np_random nor the connection.
Seeds == { 0, 1 }

\* test_env = PybulletBlocksEnv(...): __init__ takes no argument but self.
Construct ==
    /\ pc = "idle"
    /\ ~other.constructed
    /\ \E kwargs \in { "", "use_gui" } :
         IF kwargs = ""
         THEN /\ other' = [NoInstance EXCEPT !.constructed = TRUE]
              /\ result' = result
         ELSE /\ result' = [NoResult EXCEPT !.kind = "raised", !.error = "TypeError"]
              /\ other' = other
    /\ UNCHANGED <<low_level_env, _previous_low_level_obs, _problem_objects, action_space,
                   pc, Locals, CallRecord, returned_obs, calls, self, session, life,
                   args, out>>

\* The caller turns to the other instance.
Switch ==
    /\ pc = "idle"
    /\ other.constructed
    /\ self' = CHOOSE e \in Instances : e # self
    /\ other' = [constructed |-> TRUE,
                 _previous_low_level_obs |-> _previous_low_level_obs,
                 _problem_objects |-> _problem_objects,
                 action_space |-> action_space]
    /\ _previous_low_level_obs' = other._previous_low_level_obs
    /\ _problem_objects' = other._problem_objects
    /\ action_space' = other.action_space
    /\ UNCHANGED <<low_level_env, pc, Locals, result, CallRecord, returned_obs, calls,
                   session, life, args, out>>

Seed ==
    /\ pc = "idle"
    /\ life[self].seed = <<>>
    /\ \E seed \in Seeds : life' = [life EXCEPT ![self].seed = <<seed>>]
    /\ UNCHANGED <<low_level_env, _previous_low_level_obs, _problem_objects, action_space,
                   pc, Locals, result, CallRecord, returned_obs, calls, self, other,
                   session, args, out>>

Close ==
    /\ pc = "idle"
    /\ ~life[self].closed
    /\ life' = [life EXCEPT ![self].closed = TRUE]
    /\ session' = session
    /\ UNCHANGED <<low_level_env, _previous_low_level_obs, _problem_objects, action_space,
                   pc, Locals, result, CallRecord, returned_obs, calls, self, other,
                   args, out>>

\* step(puton(..)) or step(putontable(..)).
TrivialStepCall == StepCall /\ call'.action.predicate \in { "puton", "putontable" }

\* ------------------------------------------------------- specifications
\* The environment over the blocks simulator, or over a simulator that may
\* signal terminal, with opaque physics.
Init == EnvInit(LowLevelClasses, "any") /\ args = NoArgs /\ out = NoOut

Next == Reset \/ StepCall \/ ControllerInvoke \/ SimTick \/ StepReturn \/ Render

Spec == Init /\ [][Next]_vars

\* The environment over the blocks simulator with nominal physics.
NominalInit == EnvInit({"LowLevelPybulletBlocksEnv"}, "nominal") /\ args = NoArgs /\ out = NoOut

SpecNominal == NominalInit /\ [][Next]_vars

\* The controller and the grasp predicates called directly.
CtlInit == EnvInit({"LowLevelPybulletBlocksEnv"}, "any") /\ args \in CtlArgs /\ out = NoOut

CtlNext == DirectCall \/ NewFinger \/ NewGripper

SpecCtl == CtlInit /\ [][CtlNext]_vars

\* The kinematic solver called on bounded bodies and joint lists.
IKInit ==
    /\ EnvInit({"LowLevelPybulletBlocksEnv"}, "any")
    /\ \E body \in Bodies : args \in IKArgs(body)
    /\ out = NoOut

IKNext == CallInverseKinematics \/ CallGetJointRanges \/ CallGetKinematicChain \/ JointsMove

SpecIK == IKInit /\ [][IKNext]_vars

\* Two instances of PybulletBlocksEnv: constructed, seeded, reset, stepped
\* with the trivial actions and closed, in any order.
InstancesInit == EnvInit({"LowLevelPybulletBlocksEnv"}, "rest") /\ args = NoArgs /\ out = NoOut

InstancesNext ==
    Construct \/ Switch \/ Seed \/ Close \/ Reset \/ TrivialStepCall \/ ControllerInvoke
        \/ StepReturn

SpecInstances == InstancesInit /\ [][InstancesNext]_vars

\* ---------------------------------------------------------------- claims
\* C1: a step call with a registered predicate invokes the controller at most
\* controller_max_steps times and ticks the simulator at most
\* controller_max_steps times; the loop position always advances; when the
\* budget is used up with no completion signal the call returns normally with
\* the symbolic observation of the last tick.
C1_StepBudget ==
    /\ nCtrl <= controller_max_steps
    /\ nTicks <= controller_max_steps
    /\ (pc = "ctrl" => nCtrl = i /\ nTicks = i /\ i < controller_max_steps)
    /\ (pc = "sim" => nCtrl = i + 1 /\ nTicks = i /\ i < controller_max_steps)
    /\ (nTicks = controller_max_steps =>
          /\ doneAt = 0
          /\ \/ pc = "ret" /\ low_level_obs = lastTick.obs
             \/ /\ pc = "idle"
                /\ result.kind = "step"
                /\ result.obs = { ontable(b) : b \in DOMAIN lastTick.obs.blocks })

C1_Witness ==
    /\ pc = "idle"
    /\ result.kind = "step"
    /\ nCtrl = controller_max_steps
    /\ nTicks = controller_max_steps
    /\ doneAt = 0

\* C2: inside one step call no tick follows the controller invocation that
\* signalled completion: if invocation k is the first to return done, the
\* call made k invocations and k-1 ticks, and the control of invocation k was
\* not sent to the simulator.
C2_NoTickAfterDone ==
    /\ (controller_done => pc = "ret")
    /\ (doneAt > 0 => nCtrl = doneAt /\ nTicks = doneAt - 1)
    /\ (doneAt > 0 /\ nTicks > 0 => lastTick.k < doneAt)

C2_Witness ==
    /\ pc = "idle"
    /\ result.kind = "step"
    /\ doneAt = 3
    /\ nTicks = 2

\* C3: a tick that returns terminal stops the loop (no further controller
\* invocation, no further tick), and the terminal flag step returns is the
\* flag of the last tick of the call, False when the call made no tick.
C3_TerminalStopsLoop ==
    /\ (pc \in {"ctrl", "sim"} => ~lastTick.done /\ ~done)
    /\ (lastTick.done => nCtrl = nTicks /\ lastTick.k = nCtrl /\ pc \in {"ret", "idle"})
    /\ (result.kind = "step" => result.done = (nTicks > 0 /\ lastTick.done))

C3_Witness ==
    /\ result.kind = "step"
    /\ result.done
    /\ nTicks = 2
    /\ nCtrl = 2

\* C4: once reset or step has returned, the object domain (_problem_objects,
\* passed to action_space.update) is the ascending list of the distinct
\* arguments of the literals of the last symbolic observation returned, so the
\* groundable pickup actions are pickup(b) for exactly the blocks b of it.
C4_ObjectDomain ==
    returned_obs # <<>> =>
        /\ _problem_objects = <<action_space>>
        /\ \A k \in 1..(Len(action_space) - 1) : action_space[k] < action_space[k + 1]
        /\ { action_space[k] : k \in 1..Len(action_space) }
             = { lit.variables[1] : lit \in returned_obs[1] }
        /\ { [predicate |-> "ontable", variables |-> <<action_space[k]>>] :
               k \in 1..Len(action_space) } = returned_obs[1]

C4_Witness ==
    /\ result.kind = "step"
    /\ nTicks > 0
    /\ Len(action_space) = max_piles

\* C5: the cached raw observation changes only when reset or step returns;
\* when either returns it is the latest raw observation of the simulator (the
\* one of the last tick, or the one the call began with when it made no
\* tick), every controller invocation receives the latest raw observation,
\* and the symbolic observation returned is get_observation of it.
C5_CacheState ==
    /\ (pc = "idle" /\ result.kind \in {"reset", "step"} =>
          /\ _previous_low_level_obs = <<low_level_env.state>>
          /\ result.obs = get_observation(low_level_env.state))
    /\ (result.kind = "step" /\ nTicks > 0 => _previous_low_level_obs = <<lastTick.obs>>)
    /\ (result.kind = "step" /\ nTicks = 0 => _previous_low_level_obs = call.start)
    /\ (pc = "ctrl" => low_level_obs = low_level_env.state)
    /\ (ctl # NoCtl => ctl.obs = low_level_env.state)

C5_CacheIsLatest ==
    /\ []C5_CacheState
    /\ [][_previous_low_level_obs' # _previous_low_level_obs
            => pc' = "idle" /\ result'.kind \in {"reset", "step"}]_vars

C5_Witness ==
    /\ result.kind = "step"
    /\ nTicks = 2
    /\ call.start # _previous_low_level_obs

\* C6: step with a predicate that is no key of the dispatch table raises
\* before any controller invocation and any tick, and leaves the cached raw
\* observation, the object domain and the simulator as they were.
C6_Raised ==
    call # NoCall /\ call.action.predicate \notin controllers =>
        /\ pc = "idle"
        /\ result.kind = "raised"
        /\ result.error = "KeyError"
        /\ nCtrl = 0
        /\ nTicks = 0

C6_UnregisteredFails ==
    /\ []C6_Raised
    /\ [][pc = "idle" /\ call' # NoCall /\ call'.action.predicate \notin controllers
            => /\ _previous_low_level_obs' = _previous_low_level_obs
               /\ _problem_objects' = _problem_objects
               /\ action_space' = action_space
               /\ low_level_env' = low_level_env]_vars

C6_Witness ==
    /\ call.action.predicate = "noop"
    /\ result.kind = "raised"
    /\ _previous_low_level_obs # <<>>

\* C7: pickup_controller signals done exactly when the z of the target block
\* in the observation it is given is at least the pick height 0.5, whatever the
\* gripper and the fingers, and the control it returns with done is
\* (0, 0, 0, -0.01); when a step(pickup(b)) loop ends on that signal, the z of
\* b in the cached raw observation is at least the pick height.
C7_DoneIffPickHeight ==
    /\ (ctl # NoCtl /\ call.action.predicate = "pickup" /\ ~ctl.ret.raised =>
          LET z == ctl.obs.blocks[call.action.variables[1]][3]
          IN  /\ ctl.ret.done <=> z >= Scale \div 2
              /\ ctl.ret.done => ctl.ret.control = <<0, 0, 0, -(Scale \div 100)>>)
    /\ (result.kind = "step" /\ call.action.predicate = "pickup" /\ doneAt > 0 =>
          _previous_low_level_obs[1].blocks[call.action.variables[1]][3] >= Scale \div 2)

C7_Witness ==
    /\ result.kind = "step"
    /\ call.action.predicate = "pickup"
    /\ doneAt = 3
    /\ ctl.obs.finger = 0
    /\ ctl.obs.gripper # home_position

\* C8: on every observation of the grid pickup_controller returns the output
\* of the first matching branch of the five-branch policy: (1) block z >= 0.5:
\* (0,0,0,-0.01), done; (2) grasped: (0,0,sign(0.5-z),-0.01); (3) inside the
\* envelope, fingers not closed: (0,0,0,-1); (4) (x,y) within tolerance:
\* (0,0,0,+1) when the fingers are not open, else 10*(target-gripper) with
\* finger 0; (5) else 10*(target+(0,0,0.1)-gripper) with finger 0; 2..5 not
\* done.  The call leaves the observation as it was.
C8_Reference(a) ==
    LET dx == a.gripper[1] - a.block[1]
        dy == a.gripper[2] - a.block[2]
        dz == a.gripper[3] - a.block[3]
        z == a.block[3]
        inside == dx * dx + dy * dy + dz * dz < 4000
        closed == a.finger >= -72 /\ a.finger <= 72
        open == a.finger >= 98 /\ a.finger <= 102
        aligned == dx * dx + dy * dy < 4000
    IN  CASE z >= 1000 -> [control |-> <<0, 0, 0, -20>>, done |-> TRUE]
          [] z < 1000 /\ inside /\ closed ->
               [control |-> <<0, 0, IF 1000 - z > 0 THEN 2000 ELSE IF 1000 - z < 0 THEN -2000 ELSE 0,
                              -20>>, done |-> FALSE]
          [] z < 1000 /\ inside /\ ~closed ->
               [control |-> <<0, 0, 0, -2000>>, done |-> FALSE]
          [] z < 1000 /\ ~inside /\ aligned /\ ~open ->
               [control |-> <<0, 0, 0, 2000>>, done |-> FALSE]
          [] z < 1000 /\ ~inside /\ aligned /\ open ->
               [control |-> <<-10 * dx, -10 * dy, -10 * dz, 0>>, done |-> FALSE]
          [] OTHER ->
               [control |-> <<-10 * dx, -10 * dy, 10 * (200 - dz), 0>>, done |-> FALSE]

C8_Result ==
    out.called =>
        /\ ~out.ret.raised
        /\ out.ret.control = C8_Reference(args).control
        /\ out.ret.done = C8_Reference(args).done

C8_FiveBranchPolicy ==
    /\ []C8_Result
    /\ [][~out.called /\ out'.called => args' = args]_vars

C8_Witness ==
    /\ out.called
    /\ args.block[3] < pick_height
    /\ block_is_grasped(args.finger, args.gripper, args.block, <<0, 0, 0>>, atol)
    /\ out.ret.control = <<0, 0, Scale, -closing_bias>>

\* C9: for every finger position, gripper position, block position, grasp
\* offset and tolerance of the grid, with displacements at, just inside and
\* just outside the tolerance, block_is_grasped is true exactly when
\* block_inside_grippers and grippers_are_closed are both true of the same
\* arguments and tolerance.
C9_GraspedIffInsideAndClosed ==
    out.called =>
        (out.grasped <=>
            /\ block_inside_grippers(args.gripper, args.block, args.offset, args.tol)
            /\ grippers_are_closed(args.finger, args.tol))

C9_Witness ==
    /\ out.called
    /\ out.grasped
    /\ args.tol = atol
    /\ args.finger = closed_aperture + atol
    /\ args.offset # <<0, 0, 0>>
    /\ SumSq3(Sub3(Sub3(args.gripper, args.block), args.offset)) = 3961

\* C10: under nominal physics, a step(pickup(b)) call that starts with the
\* gripper above the approach height of b, the fingers open and b below the
\* pick height ends on the controller's completion signal within the budget
\* of 100 invocations, and b is then at or above the pick height 0.5.
C10_Start(obs, b) ==
    /\ b \in DOMAIN obs.blocks
    /\ obs.finger >= 98
    /\ obs.finger <= 102
    /\ obs.blocks[b][3] < 1000
    /\ obs.gripper[3] - obs.blocks[b][3] >= 200

C10_PickupCall ==
    /\ call.action.predicate = "pickup"
    /\ Len(call.action.variables) = 1
    /\ call.start # <<>>
    /\ C10_Start(call.start[1], call.action.variables[1])

C10_NominalPickupReachesDone ==
    C10_PickupCall =>
        /\ nCtrl <= 100
        /\ (pc = "idle" =>
              /\ result.kind = "step"
              /\ doneAt > 0
              /\ _previous_low_level_obs[1].blocks[call.action.variables[1]][3] >= 1000)

C10_Witness ==
    /\ C10_PickupCall
    /\ pc = "idle"
    /\ result.kind = "step"
    /\ doneAt >= 8
    /\ call.action.variables[1] = 2
    /\ call.start[1].gripper[1] # call.start[1].blocks[2][1]

\* C11: when every requested joint is a movable joint of the body,
\* inverse_kinematics returns one value per requested joint, in the order of
\* the request, and the k-th value is the entry of the optimizer's solution at
\* the rank the k-th requested joint has among the movable joints in ascending
\* order (not at its raw index); get_joint_ranges lays out the limits given to
\* the optimizer in that same order, one entry per movable joint.
C11_Movable(body) == { j \in JointIds(body.num_joints) : body.qIndex[j] > -1 }

C11_Rank(body, j) == 1 + Cardinality({ m \in C11_Movable(body) : m < j })

C11_AllMovable == \A k \in DOMAIN args.joint_indices :
                     args.joint_indices[k] \in C11_Movable(args.body)

C11_ReindexedByFreePosition ==
    (out.called /\ out.kind = "inverse_kinematics" /\ C11_AllMovable) =>
        /\ ~out.ret.raised
        /\ Len(out.ret.joint_poses) = Len(args.joint_indices)
        /\ \A k \in DOMAIN args.joint_indices :
             out.ret.joint_poses[k] =
                 out.all_joint_poses[C11_Rank(args.body, args.joint_indices[k])]
        /\ Len(out.ranges.rest_poses) = Cardinality(C11_Movable(args.body))
        /\ Len(out.all_joint_poses) = Cardinality(C11_Movable(args.body))
        /\ \A j \in C11_Movable(args.body) :
             LET r == C11_Rank(args.body, j)
             IN  /\ out.ranges.rest_poses[r] = args.body.position[j]
                 /\ (out.ranges.upper_limits[r] = 2 * JointScale)
                        <=> InList(args.joint_indices, j)

\* A fixed joint precedes the requested joints, which are requested out of
\* ascending order.
C11_Witness ==
    /\ out.called /\ out.kind = "inverse_kinematics" /\ C11_AllMovable
    /\ Len(args.joint_indices) = 2
    /\ args.joint_indices[1] > args.joint_indices[2]
    /\ args.body.qIndex[0] = -1
    /\ out.ret.joint_poses[1] # out.ret.joint_poses[2]

\* C12: for every movable joint, get_joint_ranges gives lower limit -2.0,
\* upper limit +2.0 and joint range 4.0 when the joint is requested, and
\* lower = pose - 1e-8, upper = pose + 1e-8, joint range 1e-8 when it is not;
\* the rest pose is the joint's position at the time of the call.
C12_JointRanges ==
    (out.called /\ out.kind = "get_joint_ranges") =>
        \A j \in C11_Movable(args.body) :
            LET r == C11_Rank(args.body, j)
                pose == args.body.position[j]
            IN  /\ r \in DOMAIN out.ranges.rest_poses
                /\ out.ranges.rest_poses[r] = pose
                /\ IF InList(args.joint_indices, j)
                   THEN /\ out.ranges.lower_limits[r] = -2 * JointScale
                        /\ out.ranges.upper_limits[r] = 2 * JointScale
                        /\ out.ranges.joint_ranges[r] = 4 * JointScale
                   ELSE /\ out.ranges.lower_limits[r] = pose - epsilon
                        /\ out.ranges.upper_limits[r] = pose + epsilon
                        /\ out.ranges.joint_ranges[r] = epsilon

\* C13: get_kinematic_chain returns the movable joints on the path from the
\* end effector up to the root, the end effector included when movable, and
\* no other joint, in end-effector-to-base order.
RECURSIVE C13_PathToRoot(_, _)
C13_PathToRoot(body, j) ==
    IF j = -1 THEN <<>>
    ELSE (IF body.qIndex[j] > -1 THEN <<j>> ELSE <<>>) \o C13_PathToRoot(body, body.parent[j])

C13_ChainIsPathToRoot ==
    (out.called /\ out.kind = "get_kinematic_chain") =>
        out.kinematic_chain = C13_PathToRoot(args.body, out.end_effector_id)

\* C14: inverse_kinematics raises, and returns no joint values, exactly when
\* the requested list holds an index that is no movable joint of the body (a
\* fixed joint, or an index outside the joint graph); otherwise it returns a
\* value for every requested joint, whatever the optimizer found.
C14_RaisesIffNotMovable ==
    (out.called /\ out.kind = "inverse_kinematics") =>
        /\ out.ret.raised <=> ~C11_AllMovable
        /\ out.ret.raised => (out.ret.error = "ValueError" /\ out.ret.joint_poses = <<>>)
        /\ ~out.ret.raised => Len(out.ret.joint_poses) = Len(args.joint_indices)

\* A movable joint followed by a fixed joint of the body is requested.
C14_Witness ==
    /\ out.called /\ out.kind = "inverse_kinematics"
    /\ Len(args.joint_indices) = 2
    /\ args.joint_indices[1] \in C11_Movable(args.body)
    /\ args.joint_indices[2] \in JointIds(args.body.num_joints) \ C11_Movable(args.body)
    /\ out.ret.raised

\* C20: each of the four lists get_joint_ranges returns has as many entries
\* as the requested list of joints.
C20_OneEntryPerRequestedJoint ==
    (out.called /\ out.kind = "get_joint_ranges") =>
        /\ Len(out.ranges.lower_limits) = Len(args.joint_indices)
        /\ Len(out.ranges.upper_limits) = Len(args.joint_indices)
        /\ Len(out.ranges.joint_ranges) = Len(args.joint_indices)
        /\ Len(out.ranges.rest_poses) = Len(args.joint_indices)

\* C15: the symbolic observation reset and step return is exactly the set of
\* ontable(b) for the blocks b of the raw observation it was computed from,
\* whatever the positions of blocks and gripper; computing it changes neither
\* that raw observation nor the simulator nor the object domain, and computed
\* again from an identical raw observation it is the same set.
C15_OnlyOntable ==
    result.kind \in {"reset", "step"} =>
        /\ _previous_low_level_obs # <<>>
        /\ result.obs = { [predicate |-> "ontable", variables |-> <<b>>] :
                            b \in DOMAIN _previous_low_level_obs[1].blocks }
        /\ returned_obs = <<result.obs>>

C15_ReturnStep ==
    (pc = "ret" /\ pc' = "idle") =>
        /\ _previous_low_level_obs' = <<low_level_obs>>
        /\ low_level_env' = low_level_env
        /\ _problem_objects' = _problem_objects
        /\ action_space' = action_space
        /\ (_previous_low_level_obs = <<low_level_obs>>) => (returned_obs' = returned_obs)

C15_GetObservationPure == []C15_OnlyOntable /\ [][C15_ReturnStep]_vars

\* A step returned without a tick, on the raw observation the call before had
\* returned on, with a block held up at the pick height between closed fingers.
C15_Witness ==
    /\ result.kind = "step" /\ nTicks = 0
    /\ call.start = _previous_low_level_obs
    /\ Cardinality(result.obs) >= 2
    /\ \E b \in DOMAIN _previous_low_level_obs[1].blocks :
         /\ _previous_low_level_obs[1].blocks[b][3] >= pick_height
         /\ grippers_are_closed(_previous_low_level_obs[1].finger, atol)

\* C19: a step(puton(x)) or step(putontable()) call that meets a cached raw
\* observation invokes its controller once, which signals completion with a
\* zero control; the simulator is not advanced, the call returns reward 0
\* and terminal False with the symbolic observation of the cached raw
\* observation, and it leaves the cache, the simulator and the object domain
\* as they were.
C19_Trivial == {"puton", "putontable"}

C19_Returned ==
    (result.kind = "step" /\ call.action.predicate \in C19_Trivial) =>
        /\ nCtrl = 1 /\ doneAt = 1 /\ nTicks = 0
        /\ ctl.ret = [raised |-> FALSE, error |-> "", control |-> <<0, 0, 0, 0>>,
                      done |-> TRUE]
        /\ result.reward = 0 /\ result.done = FALSE
        /\ call.start # <<>>
        /\ _previous_low_level_obs = call.start
        /\ result.obs = { ontable(b) : b \in DOMAIN call.start[1].blocks }

C19_Frame ==
    (action.predicate \in C19_Trivial \/ action'.predicate \in C19_Trivial) =>
        /\ low_level_env' = low_level_env
        /\ _previous_low_level_obs' = _previous_low_level_obs
        /\ _problem_objects' = _problem_objects
        /\ action_space' = action_space

C19_TrivialControllers == []C19_Returned /\ [][C19_Frame]_vars

\* step(puton(1)) has returned over the simulator that may signal terminal,
\* with two blocks on the table or more.
C19_Witness ==
    /\ result.kind = "step"
    /\ call.action = [predicate |-> "puton", variables |-> <<1>>]
    /\ low_level_env.cls = "TerminatingEnv"
    /\ nCtrl = 1
    /\ Cardinality(result.obs) >= 2

\* C16: two instances of the class share no state: outside a call, the raw
\* observation an instance has cached is the state of the simulator that
\* instance steps, whatever was called on the other instance since (as it is
\* when a single instance is used).
C16_CacheIsSimulatorState(cache) == cache # <<>> => cache[1] = low_level_env.state

C16_IndependentInstances ==
    pc = "idle" =>
        /\ C16_CacheIsSimulatorState(_previous_low_level_obs)
        /\ other.constructed => C16_CacheIsSimulatorState(other._previous_low_level_obs)

\* C17: once close() has returned on an instance, the simulator session that
\* instance used is disconnected (so that none is left open when the next
\* instance is constructed).
C17_ReleasedOnClose ==
    \A e \in Instances : life[e].closed => session = "disconnected"

\* C18: two instances on which seed was called with the same value sample the
\* same block set at their first reset after it.
C18_SameSeedSameScene ==
    \A e1, e2 \in Instances :
        (/\ life[e1].seed # <<>> /\ life[e1].seed = life[e2].seed
         /\ life[e1].sampled # <<>> /\ life[e2].sampled # <<>>)
            => life[e1].sampled = life[e2].sampled

\* C21: rank the phase pickup_controller infers from an observation as
\* Approach 0 < Align-open 1 < Descend 2 < Close 3 < Lift 4 < Done 5.  Under
\* nominal physics, in a step(pickup(b)) call no tick takes the observation to
\* a phase of lower rank than the phase the controller inferred before the
\* tick; the controller's output is the output of the phase so ranked.
C21_Aligned(obs, b) ==
    (obs.gripper[1] - obs.blocks[b][1]) * (obs.gripper[1] - obs.blocks[b][1])
        + (obs.gripper[2] - obs.blocks[b][2]) * (obs.gripper[2] - obs.blocks[b][2])
        < atol * Scale

C21_Rank(obs, b) ==
    LET inside == block_inside_grippers(obs.gripper, obs.blocks[b], <<0, 0, 0>>, atol)
    IN  IF obs.blocks[b][3] >= pick_height THEN 5
        ELSE IF inside /\ grippers_are_closed(obs.finger, atol) THEN 4
        ELSE IF inside THEN 3
        ELSE IF C21_Aligned(obs, b) /\ grippers_are_open(obs.finger, atol) THEN 2
        ELSE IF C21_Aligned(obs, b) THEN 1
        ELSE 0

C21_Target == action.predicate = "pickup" /\ Len(action.variables) = 1
                 /\ action.variables[1] \in DOMAIN low_level_obs.blocks

C21_OutputOfPhase ==
    (pc = "sim" /\ C21_Target) =>
        LET rank == C21_Rank(low_level_obs, action.variables[1])
        IN  /\ rank < 5
            /\ rank = 4 => (control[1] = 0 /\ control[2] = 0 /\ control[3] = Scale
                            /\ control[4] = -closing_bias)
            /\ rank = 3 => control = <<0, 0, 0, -Scale>>
            /\ rank = 1 => control = <<0, 0, 0, Scale>>
            /\ rank \in {0, 2} => control[4] = 0

C21_TickKeepsRank ==
    (pc = "sim" /\ C21_Target) =>
        C21_Rank(low_level_obs', action.variables[1])
            >= C21_Rank(low_level_obs, action.variables[1])

C22_StepNeedsReset ==
    /\ (call # NoCall /\ call.start = <<>>) =>
          /\ pc = "idle"
          /\ result.kind = "raised"
          /\ Registered(call.action.predicate) => result.error = "AttributeError"
          /\ nCtrl = 0 /\ nTicks = 0
          /\ _previous_low_level_obs = <<>>
          /\ returned_obs = <<>>
    /\ result.kind = "step" => (call.start # <<>> /\ returned_obs # <<>>)
    /\ pc # "idle" => call.start # <<>>

\* step(pickup(0)) was called before any reset.
C22_Witness ==
    /\ call.action = [predicate |-> "pickup", variables |-> <<0>>]
    /\ call.start = <<>>
    /\ result.kind = "raised" /\ result.error = "AttributeError"
    /\ low_level_env.block_ids = {}

\* C23: over LowLevelPybulletBlocksEnv every tick returns reward 0 and
\* terminal False, so every step call returns reward 0 and terminal False,
\* and its loop has ended either on the controller's completion signal or
\* with the budget of 100 ticks used up.
C23_BlocksSimulatorNeverTerminal ==
    low_level_env.cls = "LowLevelPybulletBlocksEnv" =>
        /\ lastTick.reward = 0 /\ lastTick.done = FALSE
        /\ reward = 0 /\ done = FALSE
        /\ result.kind = "step" =>
              /\ result.reward = 0 /\ result.done = FALSE
              /\ \/ doneAt > 0 /\ doneAt = nCtrl /\ nTicks = nCtrl - 1
                 \/ doneAt = 0 /\ nTicks = controller_max_steps
                       /\ nCtrl = controller_max_steps

\* A pickup call over the blocks simulator has used up the budget without a
\* completion signal, the target at the pick height in the last observation
\* (as it is after a call that ended on completion).
C23_Witness ==
    /\ low_level_env.cls = "LowLevelPybulletBlocksEnv"
    /\ result.kind = "step"
    /\ call.action = [predicate |-> "pickup", variables |-> <<0>>]
    /\ doneAt = 0 /\ nTicks = controller_max_steps
    /\ _previous_low_level_obs[1].blocks[0][3] >= pick_height

\* C24: at the tolerance atol no finger position is both closed and open,
\* and every position strictly between 0.036 and 0.049 is neither; so when
\* pickup_controller reaches its align branch (block below the pick height,
\* not inside the grippers, gripper aligned in x and y) with fingers that
\* are closed, it returns the opening command.
C24_Fingers == (-4 * open_aperture)..(4 * open_aperture)

C24_AlignBranch ==
    /\ out.called
    /\ args.block[3] < pick_height
    /\ ~block_inside_grippers(args.gripper, args.block, <<0, 0, 0>>, atol)
    /\ C21_Aligned(ArgsObs(args), 0)

C24_ClosedIsNeverOpen ==
    /\ \A f \in C24_Fingers : ~(grippers_are_closed(f, atol) /\ grippers_are_open(f, atol))
    /\ \A f \in (closed_aperture + atol + 1)..(open_aperture - atol - 1) :
          ~grippers_are_closed(f, atol) /\ ~grippers_are_open(f, atol)
    /\ (C24_AlignBranch /\ grippers_are_closed(args.finger, atol)) =>
          out.ret = [raised |-> FALSE, error |-> "", control |-> <<0, 0, 0, Scale>>,
                     done |-> FALSE]

\* The align branch was reached with the finger at 0.036, the widest closed
\* position, and the gripper 0.1 above the block.
C24_Witness ==
    /\ C24_AlignBranch
    /\ args.finger = closed_aperture + atol
    /\ grippers_are_closed(args.finger, atol)
    /\ args.gripper[3] - args.block[3] >= workspace_height
    /\ out.ret.control = <<0, 0, 0, Scale>>

====
